---- MODULE Spec2Model ----
(***************************************************************************)
(* A model of uniswap_v3_tx_decoder.py: the failover JSON-RPC client, the  *)
(* swap-log parser, the token metadata resolver with its caches, the sign  *)
(* based direction resolver and the decode orchestrator with its worker    *)
(* pool.                                                                   *)
(*                                                                         *)
(* Python strings are sequences of one-character strings; None in a string *)
(* position is the one-element sequence <<"None">>, which no string equals.*)
(***************************************************************************)
EXTENDS Integers, Sequences, FiniteSets, TLC

\* ------------------------------------------------------------------ bounds
\* Longest endpoint list handed to the client.
MaxUrls == 3
\* Most calls of client.call one client serves when call is run on its own.
MaxCalls == 2
\* Largest magnitude of a swap amount when resolve_swap_tokens is run on its own.
MaxAmount == 2
\* Most log entries in a receipt.
MaxLogs == 3
\* Hex digits of an address (40 in the source), scaled down.
AddrLen == 2
\* Hex digits of a 32-byte word (64 in the source), scaled down.
WordLen == 3
\* Width of the ABI signed integers (256 in the source), scaled down.
IntBits == 9
\* Largest of the consecutive raw amounts format_amount is run on.
MaxRaw == 20
\* Most decimals format_amount is run on (a token has up to 18, or more).
MaxDecimals == 8
\* Most lookups one client serves when the metadata resolver is run on its own.
MaxLookups == 3

\* ----------------------------------------------------------------- strings
None == <<"None">>

Falsy(s) == s = None \/ s = <<>>

LowerChar(c) ==
  CASE c = "A" -> "a" [] c = "B" -> "b" [] c = "C" -> "c" [] c = "D" -> "d"
    [] c = "E" -> "e" [] c = "F" -> "f" [] c = "X" -> "x" [] OTHER -> c

\* str.lower()
lower(s) == [i \in 1..Len(s) |-> LowerChar(s[i])]

\* str.startswith("0x")
startswith0x(s) == Len(s) >= 2 /\ s[1] = "0" /\ s[2] = "x"

\* s[-n:]
LastN(s, n) == IF Len(s) <= n THEN s ELSE SubSeq(s, Len(s) - n + 1, Len(s))

\* s[n:]
DropN(s, n) == IF Len(s) <= n THEN <<>> ELSE SubSeq(s, n + 1, Len(s))

\* str.replace("0x", ""): every non-overlapping occurrence, left to right
RECURSIVE replace0x(_)
replace0x(s) ==
  IF Len(s) < 2 THEN s
  ELSE IF s[1] = "0" /\ s[2] = "x" THEN replace0x(DropN(s, 2))
  ELSE <<s[1]>> \o replace0x(Tail(s))

normalize_address(addr) ==
  IF Falsy(addr) THEN addr
  ELSE LET a == lower(addr)
       IN  IF startswith0x(a) THEN a ELSE <<"0", "x">> \o a

decode_address(topic) == normalize_address(<<"0", "x">> \o LastN(topic, AddrLen))

HexDigit(c) ==
  CASE c = "0" -> 0 [] c = "1" -> 1 [] c = "2" -> 2 [] c = "3" -> 3
    [] c = "4" -> 4 [] c = "5" -> 5 [] c = "6" -> 6 [] c = "7" -> 7
    [] c = "8" -> 8 [] c = "9" -> 9 [] c = "a" -> 10 [] c = "b" -> 11
    [] c = "c" -> 12 [] c = "d" -> 13 [] c = "e" -> 14 [] c = "f" -> 15
    [] OTHER -> -1

RECURSIVE HexValue(_)
HexValue(s) ==
  IF s = <<>> THEN 0
  ELSE 16 * HexValue(SubSeq(s, 1, Len(s) - 1)) + HexDigit(s[Len(s)])

\* int(text, 16): an optional 0x prefix, then at least one hex digit; -1 stands
\* for the ValueError of a text that is no number
int16(text) ==
  LET t == lower(text)
      digits == IF startswith0x(t) THEN DropN(t, 2) ELSE t
  IN  IF digits = <<>> \/ \E i \in 1..Len(digits) : HexDigit(digits[i]) < 0
      THEN -1
      ELSE HexValue(digits)

SWAP_EVENT_SIG == <<"c", "4", "2">>

TOKEN0_SELECTOR == "0x0dfe1681"
TOKEN1_SELECTOR == "0xd21220a7"
DECIMALS_SELECTOR == "0x313ce567"

\* ------------------------------------------------------------- the chain
Rep(c, n) == [i \in 1..n |-> c]

\* An address as a node prints it, and the same address in upper case without
\* the prefix.
Addr(c) == <<"0", "x">> \o Rep(c, AddrLen)

\* A 32-byte word holding an address: topics and eth_call results.
Word(c) == <<"0", "x">> \o Rep("0", WordLen - AddrLen) \o Rep(c, AddrLen)

\* A 32-byte word holding a small number.
NumWord(d) == <<"0", "x">> \o Rep("0", WordLen - 1) \o <<d>>

PoolD == Addr("d")
PoolE == Addr("e")
TokenA == Addr("a")
TokenB == Addr("b")
TokenC == Addr("c")

\* What the chain answers to eth_call({to, data}, "latest"); "0x" for an
\* address that is no such contract.
ChainCall(to, data) ==
  CASE to = PoolD /\ data = TOKEN0_SELECTOR -> Word("a")
    [] to = PoolD /\ data = TOKEN1_SELECTOR -> Word("b")
    [] to = PoolE /\ data = TOKEN0_SELECTOR -> Word("b")
    [] to = PoolE /\ data = TOKEN1_SELECTOR -> Word("c")
    [] to = TokenA /\ data = DECIMALS_SELECTOR -> NumWord("0")
    [] to = TokenB /\ data = DECIMALS_SELECTOR -> NumWord("1")
    [] to = TokenC /\ data = DECIMALS_SELECTOR -> NumWord("2")
    [] OTHER -> <<"0", "x">>

\* The pair a pool really holds, and a token's real decimals.
PoolPair(pool) ==
  IF pool = PoolD THEN <<TokenA, TokenB>> ELSE <<TokenB, TokenC>>

TokenDecimals(token) ==
  CASE token = TokenA -> 0 [] token = TokenB -> 1 [] OTHER -> 2

\* Signed integers as IntBits-wide two's complement words, and back
\* (abi_decode of an int256).
Modulus == 2 ^ IntBits

EncodeInt(a) == a % Modulus

DecodeInt(w) == IF w >= Modulus \div 2 THEN w - Modulus ELSE w


\* ------------------------------------------------------------ receipts
\* topics[0] of a Transfer event, which is no Swap
OTHER_EVENT_SIG == <<"d", "d", "f">>

\* A log entry: the emitting contract, the topics and the data words.
Log(address, topics, data) == [address |-> address, topics |-> topics, data |-> data]

\* The Swap log a pool emits: topic0 as the node prints it, sender and recipient
\* as words, five data words of which the first two are the amounts.
SwapLog(pool, sender, recipient, a0, a1) ==
  Log(pool, <<(<<"0", "x">> \o SWAP_EVENT_SIG), Word(sender), Word(recipient)>>,
      <<EncodeInt(a0), EncodeInt(a1), 1, 1, 1>>)

TransferLog == Log(TokenA, <<(<<"0", "x">> \o OTHER_EVENT_SIG), Word("f"), Word("e")>>, <<5>>)

\* A receipt or a transaction as the node's JSON: null, or an object whose
\* missing keys read as None.
NullReceipt == [null |-> TRUE, status |-> "None", from |-> None, logs |-> <<>>]

Receipt(status, from, logs) == [null |-> FALSE, status |-> status, from |-> from, logs |-> logs]

NullTx == [null |-> TRUE, empty |-> TRUE, from |-> None]

EmptyTx == [null |-> FALSE, empty |-> TRUE, from |-> None]

Tx(from) == [null |-> FALSE, empty |-> FALSE, from |-> from]

\* ------------------------------------------------------------ the parser
SwapEvent(pool, sender, recipient, amount0, amount1) ==
  [pool |-> pool, sender |-> sender, recipient |-> recipient,
   amount0 |-> amount0, amount1 |-> amount1]

\* abi_decode(["int256", "int256", "uint160", "uint128", "int24"], data):
\* five words are needed; fewer raise
abi_decode_ok(data) == Len(data) >= 5

\* A parser that compares topic0 without lower()
IsSwapLogCaseSensitive(log) ==
  LET topics == log.topics
  IN  /\ ~(topics = <<>> \/ replace0x(topics[1]) # SWAP_EVENT_SIG)
      /\ ~(Len(topics) < 3)

\* A parser that takes any event with three topics for a Swap
IsSwapLogAnySig(log) == ~(Len(log.topics) < 3)

\* The test of lines 116-119: the log is skipped unless it passes.
IsSwapLog(log) ==
  LET topics == log.topics
  IN  /\ ~(topics = <<>> \/ replace0x(lower(topics[1])) # SWAP_EVENT_SIG)
      /\ ~(Len(topics) < 3)

\* The loop of parse_swap_logs over logs[i..]: the events appended so far, or
\* the exception a qualifying log with undecodable data raises.
RECURSIVE parse_loop(_, _, _)
parse_loop(logs, i, acc) ==
  IF i > Len(logs) THEN [ok |-> TRUE, swaps |-> acc]
  ELSE LET log == logs[i]
       IN  IF ~IsSwapLog(log) THEN parse_loop(logs, i + 1, acc)
           ELSE IF ~abi_decode_ok(log.data) THEN [ok |-> FALSE, swaps |-> <<>>]
           ELSE parse_loop(logs, i + 1,
                  Append(acc, SwapEvent(normalize_address(log.address),
                                        decode_address(log.topics[2]),
                                        decode_address(log.topics[3]),
                                        DecodeInt(log.data[1]),
                                        DecodeInt(log.data[2]))))

parse_swap_logs(receipt) == parse_loop(receipt.logs, 1, <<>>)

\* ------------------------------------------------------- amount formatting
\* A decimal string, by what str() prints: the digits of the coefficient, the
\* exponent, and whether the text is in scientific notation ("1E-7").
DecStr(coef, exp, sci) == [coef |-> coef, exp |-> exp, sci |-> sci]

RECURSIVE NumDigits(_)
NumDigits(n) == IF n < 10 THEN 1 ELSE 1 + NumDigits(n \div 10)

\* Decimal(value) / 10**decimals is exact here; the quotient keeps the smallest
\* exponent magnitude that holds it: trailing zeros go while the exponent is < 0.
RECURSIVE Reduce(_, _)
Reduce(coef, exp) ==
  IF exp < 0 /\ coef % 10 = 0 /\ coef # 0 THEN Reduce(coef \div 10, exp + 1)
  ELSE [coef |-> coef, exp |-> IF coef = 0 THEN 0 ELSE exp]

\* A formatter that divides as integers do
format_amount_floor(value, decimals) == DecStr(value \div 10 ^ decimals, 0, FALSE)

format_amount(value, decimals) ==
  IF decimals = 0 THEN DecStr(value, 0, FALSE)
  ELSE LET q == Reduce(value, 0 - decimals)
       IN  DecStr(q.coef, q.exp, q.exp + NumDigits(q.coef) - 1 < -6)


\* ---------------------------------------------------------------- state
VARIABLES
  chain,                \* the world: the transaction's receipt and body on chain
  rpc_urls_arg,         \* the rpc_urls argument
  rpc_urls,             \* client.rpc_urls
  request_id,           \* client._request_id
  pool_tokens_cache,    \* client._pool_tokens_cache
  decimals_cache,       \* client._decimals_cache
  pc,                   \* where each thread is
  loc,                  \* each thread's frame of JsonRpcClient.call
  work,                 \* each worker's locals and its future
  receipt, tx, swaps,   \* locals of decode_uniswap_v3_swap
  resolved,             \* token_in, amount_in, token_out, amount_out, decimals_in, decimals_out
  outcome,              \* what decode returned or raised
  posts,                \* HTTP requests sent so far, per method, and the greatest id sent
  calls                 \* calls of JsonRpcClient.call begun so far, per method and eth_call selector

vars == <<chain, rpc_urls_arg, rpc_urls, request_id, pool_tokens_cache, decimals_cache,
          pc, loc, work, receipt, tx, swaps, resolved, outcome, posts, calls>>

clientVars == <<rpc_urls, request_id, pool_tokens_cache, decimals_cache>>

mainVars == <<receipt, tx, swaps, resolved, outcome>>

Workers == {"first", "last", "dec_in", "dec_out"}

Tasks == {"main"} \cup Workers

Methods == {"eth_getTransactionReceipt", "eth_getTransactionByHash", "eth_call"}

\* How one HTTP attempt can fail: requests.post raises, raise_for_status raises,
\* the body has an "error" field, or the body has no "result" field.
FailKinds == {"network", "http_status", "rpc_error", "no_result"}

NoError == [ep |-> 0, kind |-> "none"]

Selectors == {TOKEN0_SELECTOR, TOKEN1_SELECTOR, DECIMALS_SELECTOR}

\* No call begun yet
NoCalls == [m \in Methods \cup Selectors |-> 0]

\* No request sent yet
NoPosts == [m \in Methods \cup {"max_id"} |-> 0]

NoRet == [st |-> "none", val |-> <<>>, last |-> NoError]

IdleFrame ==
  [method |-> "", to |-> <<>>, data |-> "", rpc_url |-> 0, last_error |-> NoError,
   id |-> 0, tmp |-> 0, tried |-> <<>>, ret |-> NoRet, cont |-> ""]

\* The frame at the top of call(method, params), about to enter the loop; cont
\* is where the caller goes on.
CallFrame(method, to, data, cont) ==
  [IdleFrame EXCEPT !.method = method, !.to = to, !.data = data, !.rpc_url = 1,
                    !.cont = cont]

IdleWork ==
  [st |-> "none", arg |-> <<>>, key |-> <<>>, hex0 |-> <<>>, val |-> <<>>, err |-> "",
   last |-> NoError]

NoResolved ==
  [token_in |-> None, amount_in |-> 0, token_out |-> None, amount_out |-> 0,
   decimals_in |-> 0, decimals_out |-> 0, exc |-> [msg |-> "", last |-> NoError]]

NoOutcome == [kind |-> "none", msg |-> "", last |-> NoError, result |-> <<>>]

Raised(msg, last) == [kind |-> "raised", msg |-> msg, last |-> last, result |-> <<>>]

Returned(result) == [kind |-> "returned", msg |-> "", last |-> NoError, result |-> result]

\* A client that keeps the empty URLs
KeepAllUrls(urls) == urls

\* JsonRpcClient.__init__: the list it keeps
NonEmptyUrls(urls) == SelectSeq(urls, LAMBDA url : url # "")

\* ------------------------------------------------------ JsonRpcClient.call
\* What an endpoint that answers puts in "result".
Answers(f) ==
  CASE f.method = "eth_getTransactionReceipt" -> {chain.receipt, NullReceipt}
    [] f.method = "eth_getTransactionByHash" -> {chain.tx}
    [] OTHER -> {ChainCall(f.to, f.data)}

\* A client that takes a null result for a failure of the endpoint
ClassifyNullFails(method, v) ==
  IF method # "eth_call" /\ v.null THEN "null_result" ELSE "ok"

\* Lines 51-53: a body with a result and no error is returned whatever the
\* result is, null included
Classify(method, v) == "ok"

\* How the attempt can end in the except clause: the ways a request fails, and
\* whatever an answer is taken for when it is not returned.
ExceptKinds(f) == FailKinds \cup ({Classify(f.method, v) : v \in Answers(f)} \ {"ok"})

\* Lines 41-46: the payload is built with the request id as it is now.
BuildPayload(t) ==
  /\ pc[t] = "call_try"
  /\ loc' = [loc EXCEPT ![t].id = request_id]
  /\ pc' = [pc EXCEPT ![t] = "call_incr"]
  /\ UNCHANGED <<chain, rpc_urls_arg, clientVars, work, mainVars, posts, calls>>

\* Line 47, first half: self._request_id is read
IncrRead(t) ==
  /\ pc[t] = "call_incr"
  /\ loc' = [loc EXCEPT ![t].tmp = request_id]
  /\ pc' = [pc EXCEPT ![t] = "call_post"]
  /\ UNCHANGED <<chain, rpc_urls_arg, clientVars, work, mainVars, posts, calls>>

\* The request goes out: one more of its method, and the greatest id sent so far
Sent(t) ==
  [posts EXCEPT ![loc[t].method] = @ + 1,
                !["max_id"] = IF loc[t].id > @ THEN loc[t].id ELSE @]

\* The endpoints this call has contacted, in order, each with how it failed;
\* only the latest failure keeps its kind.
Tried(t, kind) ==
  [i \in 1..Len(loc[t].tried) |->
     [ep |-> loc[t].tried[i].ep,
      kind |-> IF loc[t].tried[i].kind = "ok" THEN "ok" ELSE "failed"]]
    \o <<[ep |-> loc[t].rpc_url, kind |-> kind]>>

\* Line 47, second half, and lines 48-53 when the endpoint answers with a
\* success envelope: the sum is stored, the request sent, the result returned
PostOk(t) ==
  /\ pc[t] = "call_post"
  /\ request_id' = loc[t].tmp + 1
  /\ \E v \in Answers(loc[t]) :
       /\ Classify(loc[t].method, v) = "ok"
       /\ loc' = [loc EXCEPT ![t].ret = [st |-> "ok", val |-> v, last |-> NoError],
                             ![t].tried = Tried(t, "ok"),
                             ![t].id = 0, ![t].tmp = 0]
  /\ posts' = Sent(t)
  /\ pc' = [pc EXCEPT ![t] = "call_ret"]
  /\ UNCHANGED <<chain, rpc_urls_arg, rpc_urls, pool_tokens_cache, decimals_cache,
                 work, mainVars, calls>>

\* A loop that tries the same URL again
NextUrlSame(i) == i

\* The loop variable after a failed attempt (line 56: continue)
NextUrl(i) == i + 1

\* A client that keeps the first failure instead of the last
KeepFirstError(previous, exc) == IF previous.kind = "none" THEN exc ELSE previous

\* Line 55: last_error = exc
KeepError(previous, exc) == exc

\* Line 47, second half, and lines 48-57 when the attempt fails: the exception
\* is kept and the loop goes on to the next URL; after the last URL the call
\* raises with the exception kept last
PostFail(t) ==
  /\ pc[t] = "call_post"
  /\ request_id' = loc[t].tmp + 1
  /\ \E kind \in ExceptKinds(loc[t]) :
       LET exc == [ep |-> loc[t].rpc_url, kind |-> kind]
           f == [loc[t] EXCEPT !.last_error = KeepError(@, exc), !.tried = Tried(t, kind),
                               !.rpc_url = NextUrl(@), !.id = 0, !.tmp = 0]
       IN  IF f.rpc_url > Len(rpc_urls)
           THEN /\ loc' = [loc EXCEPT ![t] =
                             [f EXCEPT !.ret = [st |-> "err", val |-> <<>>, last |-> f.last_error]]]
                /\ pc' = [pc EXCEPT ![t] = "call_ret"]
           ELSE /\ loc' = [loc EXCEPT ![t] = f]
                /\ pc' = [pc EXCEPT ![t] = "call_try"]
  /\ posts' = Sent(t)
  /\ UNCHANGED <<chain, rpc_urls_arg, rpc_urls, pool_tokens_cache, decimals_cache,
                 work, mainVars, calls>>

\* The caller of call is back at cont.
Back(t, cont) == pc[t] = "call_ret" /\ loc[t].cont = cont

AllFailed == "all RPC endpoints failed"


\* A call of client.call begins: one more logical call of the method.
Begun(method) == [calls EXCEPT ![method] = @ + 1]

\* eth_call(client, to_addr, data) begins: one more eth_call, and one more call
\* of the function the data selects.
BegunCall(data) == [calls EXCEPT !["eth_call"] = @ + 1, ![data] = @ + 1]

\* ------------------------------------------------------------- the workers
Finished(w, val) == [w EXCEPT !.st = "ok", !.val = val, !.key = <<>>, !.hex0 = <<>>]

Failed(w, msg, last) ==
  [w EXCEPT !.st = "err", !.err = msg, !.last = last, !.key = <<>>, !.hex0 = <<>>]

\* A resolver that forgets to swap the tokens in the mirror case
DirectionUnswapped(w, pair) ==
  LET swap == w.arg
  IN  IF swap.amount0 > 0 /\ swap.amount1 < 0
      THEN Finished(w, <<pair[1], pair[2], swap.amount0, 0 - swap.amount1>>)
      ELSE IF swap.amount1 > 0 /\ swap.amount0 < 0
      THEN Finished(w, <<pair[1], pair[2], swap.amount1, 0 - swap.amount0>>)
      ELSE Failed(w, "unexpected swap amounts", NoError)

\* A resolver whose sign tests let zero pass
DirectionLoose(w, pair) ==
  LET swap == w.arg
  IN  IF swap.amount0 >= 0 /\ swap.amount1 <= 0
      THEN Finished(w, <<pair[1], pair[2], swap.amount0, 0 - swap.amount1>>)
      ELSE IF swap.amount1 >= 0 /\ swap.amount0 <= 0
      THEN Finished(w, <<pair[2], pair[1], swap.amount1, 0 - swap.amount0>>)
      ELSE Failed(w, "unexpected swap amounts", NoError)

\* Lines 143-149 of resolve_swap_tokens, the pair in hand
Direction(w, pair) ==
  LET swap == w.arg
  IN  IF swap.amount0 > 0 /\ swap.amount1 < 0
      THEN Finished(w, <<pair[1], pair[2], swap.amount0, 0 - swap.amount1>>)
      ELSE IF swap.amount1 > 0 /\ swap.amount0 < 0
      THEN Finished(w, <<pair[2], pair[1], swap.amount1, 0 - swap.amount0>>)
      ELSE Failed(w, "unexpected swap amounts", NoError)

\* dict[key] = value
Put(cache, key, value) == (key :> value) @@ cache

\* A resolver that keys its caches by the address as it was spelled
CacheKeyRaw(addr) == addr

\* Lines 75 and 87: cache_key = normalize_address(address)
CacheKey(addr) == normalize_address(addr)

\* A resolver that reads token1 from the answer to token0()
TokenPairFromToken0(token0_hex, token1_hex) ==
  <<normalize_address(<<"0", "x">> \o LastN(token0_hex, AddrLen)),
    normalize_address(<<"0", "x">> \o LastN(token0_hex, AddrLen))>>

\* Lines 80-82: the tuple (token0, token1) that is stored and returned
TokenPairOf(token0_hex, token1_hex) ==
  <<normalize_address(<<"0", "x">> \o LastN(token0_hex, AddrLen)),
    normalize_address(<<"0", "x">> \o LastN(token1_hex, AddrLen))>>

\* resolve_swap_tokens enters get_token0_token1 (lines 75-78): a hit returns the
\* cached pair, a miss calls token0()
GetPair(t) ==
  /\ t \in {"first", "last"}
  /\ pc[t] = "resolve"
  /\ LET cache_key == CacheKey(work[t].arg.pool)
     IN  IF cache_key \in DOMAIN pool_tokens_cache
         THEN /\ work' = [work EXCEPT ![t] = Direction(work[t], pool_tokens_cache[cache_key])]
              /\ pc' = [pc EXCEPT ![t] = "finished"]
              /\ UNCHANGED <<loc, calls>>
         ELSE /\ work' = [work EXCEPT ![t].key = cache_key]
              /\ loc' = [loc EXCEPT ![t] = CallFrame("eth_call", cache_key, TOKEN0_SELECTOR, "token0")]
              /\ calls' = BegunCall(TOKEN0_SELECTOR)
              /\ pc' = [pc EXCEPT ![t] = "call_try"]
  /\ UNCHANGED <<chain, rpc_urls_arg, clientVars, mainVars, posts>>

\* Lines 78-79: token0() is back, token1() is called
AfterToken0(t) ==
  /\ Back(t, "token0")
  /\ IF loc[t].ret.st = "err"
     THEN /\ work' = [work EXCEPT ![t] = Failed(work[t], AllFailed, loc[t].ret.last)]
          /\ pc' = [pc EXCEPT ![t] = "finished"]
          /\ loc' = [loc EXCEPT ![t] = IdleFrame]
          /\ UNCHANGED calls
     ELSE /\ work' = [work EXCEPT ![t].hex0 = loc[t].ret.val]
          /\ loc' = [loc EXCEPT ![t] = CallFrame("eth_call", work[t].key, TOKEN1_SELECTOR, "token1")]
          /\ calls' = BegunCall(TOKEN1_SELECTOR)
          /\ pc' = [pc EXCEPT ![t] = "call_try"]
  /\ UNCHANGED <<chain, rpc_urls_arg, clientVars, mainVars, posts>>

\* Lines 80-83, then 143-149: token1() is back, the pair is stored and the
\* direction read off the signs
AfterToken1(t) ==
  /\ Back(t, "token1")
  /\ IF loc[t].ret.st = "err"
     THEN /\ work' = [work EXCEPT ![t] = Failed(work[t], AllFailed, loc[t].ret.last)]
          /\ UNCHANGED pool_tokens_cache
     ELSE LET pair == TokenPairOf(work[t].hex0, loc[t].ret.val)
          IN  /\ pool_tokens_cache' = Put(pool_tokens_cache, work[t].key, pair)
              /\ work' = [work EXCEPT ![t] = Direction(work[t], pair)]
  /\ pc' = [pc EXCEPT ![t] = "finished"]
  /\ loc' = [loc EXCEPT ![t] = IdleFrame]
  /\ UNCHANGED <<chain, rpc_urls_arg, rpc_urls, request_id, decimals_cache,
                 mainVars, posts, calls>>

\* get_decimals, lines 87-90: a hit returns the cached number, a miss calls decimals()
GetDecimals(t) ==
  /\ t \in {"dec_in", "dec_out"}
  /\ pc[t] = "decimals"
  /\ LET cache_key == CacheKey(work[t].arg)
     IN  IF cache_key \in DOMAIN decimals_cache
         THEN /\ work' = [work EXCEPT ![t] = Finished(work[t], decimals_cache[cache_key])]
              /\ pc' = [pc EXCEPT ![t] = "finished"]
              /\ UNCHANGED <<loc, calls>>
         ELSE /\ work' = [work EXCEPT ![t].key = cache_key]
              /\ loc' = [loc EXCEPT ![t] = CallFrame("eth_call", cache_key, DECIMALS_SELECTOR, "decimals")]
              /\ calls' = BegunCall(DECIMALS_SELECTOR)
              /\ pc' = [pc EXCEPT ![t] = "call_try"]
  /\ UNCHANGED <<chain, rpc_urls_arg, clientVars, mainVars, posts>>

\* Lines 91-93: decimals() is back; int() raises ValueError on a text that is no number
AfterDecimals(t) ==
  /\ Back(t, "decimals")
  /\ IF loc[t].ret.st = "err"
     THEN /\ work' = [work EXCEPT ![t] = Failed(work[t], AllFailed, loc[t].ret.last)]
          /\ UNCHANGED decimals_cache
     ELSE LET decimals == int16(loc[t].ret.val)
          IN  IF decimals < 0
              THEN /\ work' = [work EXCEPT ![t] = Failed(work[t], "ValueError", NoError)]
                   /\ UNCHANGED decimals_cache
              ELSE /\ decimals_cache' = Put(decimals_cache, work[t].key, decimals)
                   /\ work' = [work EXCEPT ![t] = Finished(work[t], decimals)]
  /\ pc' = [pc EXCEPT ![t] = "finished"]
  /\ loc' = [loc EXCEPT ![t] = IdleFrame]
  /\ UNCHANGED <<chain, rpc_urls_arg, rpc_urls, request_id, pool_tokens_cache,
                 mainVars, posts, calls>>

\* executor.submit(fn, client, arg): the worker starts on arg
Submitted(arg) == [IdleWork EXCEPT !.st = "running", !.arg = arg]


\* ------------------------------------------------- decode_uniswap_v3_swap
\* Lines 153-154: the client is built, which raises on a list with no URL, and
\* the receipt is asked for
Construct ==
  /\ pc["main"] = "start"
  /\ LET urls == NonEmptyUrls(rpc_urls_arg)
     IN  IF urls = <<>>
         THEN /\ outcome' = Raised("RPC_URL is empty", NoError)
              /\ pc' = [pc EXCEPT !["main"] = "done"]
              /\ UNCHANGED <<clientVars, loc, calls>>
         ELSE /\ rpc_urls' = urls
              /\ request_id' = 1
              /\ pool_tokens_cache' = <<>>
              /\ decimals_cache' = <<>>
              /\ loc' = [loc EXCEPT !["main"] = CallFrame("eth_getTransactionReceipt", <<>>, "", "receipt")]
              /\ calls' = Begun("eth_getTransactionReceipt")
              /\ pc' = [pc EXCEPT !["main"] = "call_try"]
              /\ UNCHANGED outcome
  /\ UNCHANGED <<chain, rpc_urls_arg, work, receipt, tx, swaps, resolved, posts>>

\* A decoder that takes a receipt without a status for a success
StatusNotFailed(r) == r.status # "0x0"

\* Line 157
StatusOk(r) == r.status = "0x1"

\* Lines 154-159: the receipt is back; a missing or failed one raises, else the
\* transaction is asked for
AfterReceipt ==
  /\ Back("main", "receipt")
  /\ LET ret == loc["main"].ret
     IN  IF ret.st = "err" \/ ret.val.null \/ ~StatusOk(ret.val)
         THEN /\ outcome' = IF ret.st = "err" THEN Raised(AllFailed, ret.last)
                            ELSE IF ret.val.null THEN Raised("receipt not found", NoError)
                            ELSE Raised("transaction failed", NoError)
              /\ pc' = [pc EXCEPT !["main"] = "done"]
              /\ receipt' = IF ret.st = "err" THEN receipt ELSE ret.val
              /\ loc' = [loc EXCEPT !["main"] = IdleFrame]
              /\ UNCHANGED calls
         ELSE /\ receipt' = ret.val
              /\ loc' = [loc EXCEPT !["main"] = CallFrame("eth_getTransactionByHash", <<>>, "", "tx")]
              /\ calls' = Begun("eth_getTransactionByHash")
              /\ pc' = [pc EXCEPT !["main"] = "call_try"]
              /\ UNCHANGED outcome
  /\ UNCHANGED <<chain, rpc_urls_arg, clientVars, work, tx, swaps, resolved, posts>>

\* Line 167
first_swap(events) == events[1]

\* A decoder that takes the first event for the last
last_swap_first(events) == events[1]

\* Line 168
last_swap(events) == events[Len(events)]

\* Lines 159-172: the transaction is back (null and {} become {}), the logs are
\* parsed, and the first and the last event go to the pool
AfterTx ==
  /\ Back("main", "tx")
  /\ LET ret == loc["main"].ret
         parsed == parse_swap_logs(receipt)
     IN  IF ret.st = "err" \/ ~parsed.ok \/ parsed.swaps = <<>>
         THEN /\ outcome' = IF ret.st = "err" THEN Raised(AllFailed, ret.last)
                            ELSE IF ~parsed.ok THEN Raised("abi decode error", NoError)
                            ELSE Raised("no Uniswap V3 Swap event found", NoError)
              /\ tx' = IF ret.st = "err" THEN tx
                       ELSE IF ret.val.null \/ ret.val.empty THEN EmptyTx ELSE ret.val
              /\ pc' = [pc EXCEPT !["main"] = "done"]
              /\ UNCHANGED <<swaps, work>>
         ELSE /\ tx' = IF ret.val.null \/ ret.val.empty THEN EmptyTx ELSE ret.val
              /\ swaps' = parsed.swaps
              /\ work' = [work EXCEPT !["first"] = Submitted(first_swap(parsed.swaps)),
                                      !["last"] = Submitted(last_swap(parsed.swaps))]
              /\ pc' = [pc EXCEPT !["main"] = "wait_first", !["first"] = "resolve",
                                  !["last"] = "resolve"]
              /\ UNCHANGED outcome
  /\ loc' = [loc EXCEPT !["main"] = IdleFrame]
  /\ UNCHANGED <<chain, rpc_urls_arg, clientVars, receipt, resolved, posts, calls>>

Done(t) == work[t].st \in {"ok", "err"}

\* An exception leaves the with block: it is kept until the pool has shut down.
Pending(w) == [resolved EXCEPT !.exc = [msg |-> w.err, last |-> w.last]]

\* A decoder that swallows the failure of the first-event resolution
WaitFirstSwallow ==
  /\ pc["main"] = "wait_first"
  /\ Done("first")
  /\ resolved' = IF work["first"].st = "err" THEN resolved
                 ELSE [resolved EXCEPT !.token_in = work["first"].val[1],
                                       !.amount_in = work["first"].val[3]]
  /\ pc' = [pc EXCEPT !["main"] = "wait_last"]
  /\ UNCHANGED <<chain, rpc_urls_arg, clientVars, loc, work, receipt, tx, swaps,
                 outcome, posts, calls>>

\* Line 173: first_future.result()
WaitFirst ==
  /\ pc["main"] = "wait_first"
  /\ Done("first")
  /\ IF work["first"].st = "err"
     THEN /\ resolved' = Pending(work["first"])
          /\ pc' = [pc EXCEPT !["main"] = "exit"]
     ELSE /\ resolved' = [resolved EXCEPT !.token_in = work["first"].val[1],
                                          !.amount_in = work["first"].val[3]]
          /\ pc' = [pc EXCEPT !["main"] = "wait_last"]
  /\ UNCHANGED <<chain, rpc_urls_arg, clientVars, loc, work, receipt, tx, swaps,
                 outcome, posts, calls>>

\* Lines 174-177: last_future.result(), then the two decimals lookups are submitted
WaitLast ==
  /\ pc["main"] = "wait_last"
  /\ Done("last")
  /\ IF work["last"].st = "err"
     THEN /\ resolved' = Pending(work["last"])
          /\ pc' = [pc EXCEPT !["main"] = "exit"]
          /\ UNCHANGED work
     ELSE /\ resolved' = [resolved EXCEPT !.token_out = work["last"].val[2],
                                          !.amount_out = work["last"].val[4]]
          /\ work' = [work EXCEPT !["dec_in"] = Submitted(resolved.token_in),
                                  !["dec_out"] = Submitted(work["last"].val[2])]
          /\ pc' = [pc EXCEPT !["main"] = "wait_dec_in", !["dec_in"] = "decimals",
                              !["dec_out"] = "decimals"]
  /\ UNCHANGED <<chain, rpc_urls_arg, clientVars, loc, receipt, tx, swaps,
                 outcome, posts, calls>>

\* Line 178: decimals_in_future.result()
WaitDecimalsIn ==
  /\ pc["main"] = "wait_dec_in"
  /\ Done("dec_in")
  /\ IF work["dec_in"].st = "err"
     THEN /\ resolved' = Pending(work["dec_in"])
          /\ pc' = [pc EXCEPT !["main"] = "exit"]
     ELSE /\ resolved' = [resolved EXCEPT !.decimals_in = work["dec_in"].val]
          /\ pc' = [pc EXCEPT !["main"] = "wait_dec_out"]
  /\ UNCHANGED <<chain, rpc_urls_arg, clientVars, loc, work, receipt, tx, swaps,
                 outcome, posts, calls>>

\* Line 179: decimals_out_future.result()
WaitDecimalsOut ==
  /\ pc["main"] = "wait_dec_out"
  /\ Done("dec_out")
  /\ resolved' = IF work["dec_out"].st = "err" THEN Pending(work["dec_out"])
                 ELSE [resolved EXCEPT !.decimals_out = work["dec_out"].val]
  /\ pc' = [pc EXCEPT !["main"] = "exit"]
  /\ UNCHANGED <<chain, rpc_urls_arg, clientVars, loc, work, receipt, tx, swaps,
                 outcome, posts, calls>>

\* A decoder that asks the receipt first
SenderRawReceiptFirst(t, r) == IF ~Falsy(r.from) THEN r.from ELSE t.from

\* tx.get("from") or receipt.get("from")
SenderRaw(t, r) == IF ~Falsy(t.from) THEN t.from ELSE r.from

\* Lines 187-194
Result(sender_raw, events, res) ==
  [sender |-> normalize_address(sender_raw),
   recipient |-> last_swap(events).recipient,
   tokenIn |-> res.token_in,
   tokenOut |-> res.token_out,
   amountIn |-> format_amount(res.amount_in, res.decimals_in),
   amountOut |-> format_amount(res.amount_out, res.decimals_out)]

\* A pool that is shut down without waiting
JoinedNoWait == TRUE

\* ThreadPoolExecutor.__exit__ is shutdown(wait=True): it returns when every
\* submitted task is over
Joined == \A t \in Workers : work[t].st # "running"

\* The with block ends (the pool shuts down, waiting for every submitted task),
\* then lines 181-194: a pending exception goes on, else the sender is looked up
\* and the result returned
Exit ==
  /\ pc["main"] = "exit"
  /\ Joined
  /\ outcome' = IF resolved.exc.msg # "" THEN Raised(resolved.exc.msg, resolved.exc.last)
                ELSE IF Falsy(SenderRaw(tx, receipt)) THEN Raised("sender not found", NoError)
                ELSE Returned(Result(SenderRaw(tx, receipt), swaps, resolved))
  /\ pc' = [pc EXCEPT !["main"] = "done"]
  /\ UNCHANGED <<chain, rpc_urls_arg, clientVars, loc, work, receipt, tx, swaps,
                 resolved, posts, calls>>

\* ------------------------------------------------------------ the inputs
\* All sequences over S of length at most n.
SeqsUpTo(S, n) == UNION {[1..k -> S] : k \in 0..n}

SwapA == SwapLog(PoolD, "f", "9", 5, -3)
SwapB == SwapLog(PoolE, "1", "2", 3, -2)
SwapBm == SwapLog(<<"0", "x">> \o Rep("E", AddrLen), "1", "3", -4, 2)
SwapM == SwapLog(PoolD, "f", "4", 0, 2)
\* One unit of token0 in, two units of token1 out, on a pool whose tokens have 1
\* and 2 decimals.
SwapX == SwapLog(PoolE, "1", "2", 10, -200)

EndLogs == {TransferLog, SwapA, SwapBm, SwapM}

MidLogs == {SwapM}

\* The receipts' log lists decode is run on: any of EndLogs first and last,
\* MidLogs between them.
DecodeLogLists ==
  {s \in SeqsUpTo(EndLogs \cup MidLogs, MaxLogs) : \A i \in 2..(Len(s) - 1) : s[i] \in MidLogs}

SenderF == <<"0", "x">> \o Rep("F", AddrLen)
Sender8 == Rep("8", AddrLen)

Scenario(r, t) == [receipt |-> r, tx |-> t]

\* Transactions whose decode reaches the worker pool: every log list with one
\* sender, and one log list with every way of naming the sender.
PoolScenarios ==
  {Scenario(Receipt("0x1", None, logs), Tx(SenderF)) : logs \in DecodeLogLists}
  \cup {Scenario(Receipt("0x1", from, <<SwapB>>), t) :
          from \in {None, <<>>, Sender8},
          t \in {NullTx, EmptyTx, Tx(None), Tx(<<>>), Tx(SenderF)}}
  \cup {Scenario(Receipt("0x1", None, <<SwapX>>), Tx(SenderF))}

\* Transactions whose decode ends before the pool: a failed or missing status,
\* no Swap log, a Swap log whose data does not decode.
EarlyScenarios ==
  {Scenario(Receipt(st, None, <<SwapA>>), Tx(SenderF)) : st \in {"0x0", "None"}}
  \cup {Scenario(Receipt("0x1", None, logs), t) :
          logs \in {<<>>, <<TransferLog>>, <<TransferLog, TransferLog>>,
                    <<[SwapA EXCEPT !.data = <<1, 2>>]>>},
          t \in {NullTx, Tx(SenderF)}}

\* The runs of decode: one endpoint with every transaction, several endpoints
\* with those that end before the pool.
Inputs ==
  {[urls |-> u, chain |-> c] : u \in {<<"", "u1">>}, c \in PoolScenarios}
  \cup {[urls |-> u, chain |-> c] :
          u \in {<<>>, <<"">>, <<"u1">>, <<"u1", "", "u2">>}, c \in EarlyScenarios}

Idle ==
  /\ rpc_urls = <<>>
  /\ request_id = 0
  /\ pool_tokens_cache = <<>>
  /\ decimals_cache = <<>>
  /\ loc = [t \in Tasks |-> IdleFrame]
  /\ work = [t \in Workers |-> IdleWork]
  /\ receipt = NullReceipt
  /\ tx = NullTx
  /\ swaps = <<>>
  /\ resolved = NoResolved
  /\ outcome = NoOutcome
  /\ posts = NoPosts
  /\ calls = NoCalls

Init ==
  /\ \E i \in Inputs : chain = i.chain /\ rpc_urls_arg = i.urls
  /\ pc = [t \in Tasks |-> IF t = "main" THEN "start" ELSE "idle"]
  /\ Idle

CallStep(t) ==
  \/ BuildPayload(t)
  \/ IncrRead(t)
  \/ PostOk(t)
  \/ PostFail(t)

Next ==
  \/ Construct
  \/ AfterReceipt
  \/ AfterTx
  \/ WaitFirst
  \/ WaitLast
  \/ WaitDecimalsIn
  \/ WaitDecimalsOut
  \/ Exit
  \/ \E t \in Tasks : CallStep(t)
  \/ \E t \in Workers : GetPair(t)
  \/ \E t \in Workers : AfterToken0(t)
  \/ \E t \in Workers : AfterToken1(t)
  \/ \E t \in Workers : GetDecimals(t)
  \/ \E t \in Workers : AfterDecimals(t)

Spec == Init /\ [][Next]_vars


\* ------------------------------------------- JsonRpcClient.call on its own
\* JsonRpcClient(rpc_urls), lines 29-35
NewClient ==
  /\ pc["main"] = "new"
  /\ LET urls == NonEmptyUrls(rpc_urls_arg)
     IN  IF urls = <<>>
         THEN /\ outcome' = Raised("RPC_URL is empty", NoError)
              /\ pc' = [pc EXCEPT !["main"] = "done"]
              /\ UNCHANGED clientVars
         ELSE /\ rpc_urls' = urls
              /\ request_id' = 1
              /\ pool_tokens_cache' = <<>>
              /\ decimals_cache' = <<>>
              /\ pc' = [pc EXCEPT !["main"] = "ready"]
              /\ UNCHANGED outcome
  /\ UNCHANGED <<chain, rpc_urls_arg, loc, work, receipt, tx, swaps, resolved, posts, calls>>

CallsBegun == calls["eth_getTransactionReceipt"] + calls["eth_getTransactionByHash"] + calls["eth_call"]

\* client.call(method, params)
TestCall ==
  /\ pc["main"] = "ready"
  /\ CallsBegun < MaxCalls
  /\ \E method \in Methods :
       /\ loc' = [loc EXCEPT !["main"] =
                    IF method = "eth_call"
                    THEN CallFrame(method, PoolD, TOKEN0_SELECTOR, "test")
                    ELSE CallFrame(method, <<>>, "", "test")]
       /\ calls' = IF method = "eth_call" THEN BegunCall(TOKEN0_SELECTOR) ELSE Begun(method)
  /\ pc' = [pc EXCEPT !["main"] = "call_try"]
  /\ UNCHANGED <<chain, rpc_urls_arg, clientVars, work, mainVars, posts>>

\* The call is over: what it returned or raised
TestReturn ==
  /\ Back("main", "test")
  /\ outcome' = IF loc["main"].ret.st = "err" THEN Raised(AllFailed, loc["main"].ret.last)
                ELSE Returned(loc["main"].ret.val)
  /\ loc' = [loc EXCEPT !["main"] = IdleFrame]
  /\ pc' = [pc EXCEPT !["main"] = "ready"]
  /\ UNCHANGED <<chain, rpc_urls_arg, clientVars, work, receipt, tx, swaps, resolved,
                 posts, calls>>

Urls == {"", "u1"}

InitCall ==
  /\ chain = Scenario(Receipt("0x1", None, <<SwapA>>), Tx(SenderF))
  /\ rpc_urls_arg \in SeqsUpTo(Urls, MaxUrls)
  /\ pc = [t \in Tasks |-> IF t = "main" THEN "new" ELSE "idle"]
  /\ Idle

NextCall ==
  \/ NewClient
  \/ TestCall
  \/ TestReturn
  \/ BuildPayload("main")
  \/ IncrRead("main")
  \/ PostOk("main")
  \/ PostFail("main")

SpecCall == InitCall /\ [][NextCall]_vars

\* ------------------------------------------- resolve_swap_tokens on its own
Amounts == (0 - MaxAmount)..MaxAmount

TestEvents ==
  {SwapEvent(pool, Addr("f"), Addr("9"), a0, a1) :
     pool \in {PoolD, PoolE, <<"0", "X">> \o Rep("E", AddrLen)}, a0 \in Amounts, a1 \in Amounts}

\* A client that has served calls before: the caches it may hold
PoolCaches ==
  {<<>>, (PoolD :> PoolPair(PoolD)), (PoolD :> PoolPair(PoolD)) @@ (PoolE :> PoolPair(PoolE))}

\* resolve_swap_tokens(client, swap) on a client built on one or two endpoints
InitResolve ==
  /\ chain = Scenario(Receipt("0x1", None, <<SwapA>>), Tx(SenderF))
  /\ rpc_urls_arg \in {<<"u1">>, <<"u1", "u2">>}
  /\ rpc_urls = rpc_urls_arg
  /\ request_id = 1
  /\ pool_tokens_cache \in PoolCaches
  /\ decimals_cache = <<>>
  /\ pc = [t \in Tasks |-> IF t = "first" THEN "resolve" ELSE "idle"]
  /\ loc = [t \in Tasks |-> IdleFrame]
  /\ \E swap \in TestEvents : work = [t \in Workers |-> IF t = "first" THEN Submitted(swap) ELSE IdleWork]
  /\ receipt = NullReceipt
  /\ tx = NullTx
  /\ swaps = <<>>
  /\ resolved = NoResolved
  /\ outcome = NoOutcome
  /\ posts = NoPosts
  /\ calls = NoCalls

NextResolve ==
  \/ GetPair("first")
  \/ AfterToken0("first")
  \/ AfterToken1("first")
  \/ BuildPayload("first")
  \/ IncrRead("first")
  \/ PostOk("first")
  \/ PostFail("first")

SpecResolve == InitResolve /\ [][NextResolve]_vars

\* ----------------------------------------------- parse_swap_logs on its own
UpperSig == <<"0", "X", "C", "4", "2">>

\* Log entries of every shape the parser tells apart: no topics, another event,
\* the Swap signature alone or with one address, the signature without prefix
\* or in upper case, a fourth topic, data that does not decode.
ParseLogs ==
  {TransferLog, SwapA, SwapBm,
   SwapLog(PoolE, "1", "2", 0, 0),
   [SwapA EXCEPT !.topics = <<>>],
   [SwapA EXCEPT !.topics = <<(<<"0", "x">> \o SWAP_EVENT_SIG)>>],
   [SwapA EXCEPT !.topics = <<(<<"0", "x">> \o SWAP_EVENT_SIG), Word("f")>>],
   [SwapB EXCEPT !.topics[1] = SWAP_EVENT_SIG],
   [SwapB EXCEPT !.topics[1] = UpperSig, !.topics = Append(@, Word("7"))],
   [SwapB EXCEPT !.data = <<3, 4>>]}

InitParse ==
  /\ chain \in {Scenario(Receipt("0x1", None, logs), Tx(SenderF)) : logs \in SeqsUpTo(ParseLogs, MaxLogs)}
  /\ rpc_urls_arg = <<"u1">>
  /\ pc = [t \in Tasks |-> IF t = "main" THEN "parse" ELSE "idle"]
  /\ Idle

\* swaps = parse_swap_logs(receipt)
TestParse ==
  /\ pc["main"] = "parse"
  /\ LET parsed == parse_swap_logs(chain.receipt)
     IN  /\ swaps' = parsed.swaps
         /\ outcome' = IF parsed.ok THEN Returned(<<>>) ELSE Raised("abi decode error", NoError)
  /\ receipt' = chain.receipt
  /\ pc' = [pc EXCEPT !["main"] = "done"]
  /\ UNCHANGED <<chain, rpc_urls_arg, clientVars, loc, work, tx, resolved, posts, calls>>

NextParse == TestParse

SpecParse == InitParse /\ [][NextParse]_vars


\* ------------------------------- the metadata resolver on one client, reused
\* Pool and token addresses as a caller may spell them: as the node prints
\* them, in upper case, without the prefix.
LookupPools == {PoolD, <<"0", "X">> \o Rep("D", AddrLen), Rep("D", AddrLen), PoolE}

LookupTokens == {TokenA, Rep("A", AddrLen), TokenB}

\* What the caller of the lookups holds: how many lookups it has begun, the
\* lookups that returned (which function, the address as spelled, the value),
\* and the counts of eth_call calls and requests when the current one began.
Driving(n, seen, calls0, posts0) ==
  [kind |-> "driving", msg |-> "", last |-> NoError,
   result |-> [n |-> n, seen |-> seen, calls0 |-> calls0, posts0 |-> posts0]]

\* resolve_swap_tokens(client, swap), which enters get_token0_token1(client, swap.pool)
TestLookupPair ==
  /\ pc["main"] = "ready"
  /\ outcome.result.n < MaxLookups
  /\ \E pool \in LookupPools :
       work' = [work EXCEPT !["first"] = Submitted(SwapEvent(pool, Addr("f"), Addr("9"), 1, -1))]
  /\ pc' = [pc EXCEPT !["main"] = "waiting", !["first"] = "resolve"]
  /\ outcome' = Driving(outcome.result.n + 1, outcome.result.seen,
                        calls["eth_call"], posts["eth_call"])
  /\ UNCHANGED <<chain, rpc_urls_arg, clientVars, loc, receipt, tx, swaps, resolved,
                 posts, calls>>

\* get_decimals(client, token)
TestLookupDecimals ==
  /\ pc["main"] = "ready"
  /\ outcome.result.n < MaxLookups
  /\ \E token \in LookupTokens :
       work' = [work EXCEPT !["dec_in"] = Submitted(token)]
  /\ pc' = [pc EXCEPT !["main"] = "waiting", !["dec_in"] = "decimals"]
  /\ outcome' = Driving(outcome.result.n + 1, outcome.result.seen,
                        calls["eth_call"], posts["eth_call"])
  /\ UNCHANGED <<chain, rpc_urls_arg, clientVars, loc, receipt, tx, swaps, resolved,
                 posts, calls>>

\* The lookup is over: the caller notes what it returned
TestLookupDone ==
  /\ pc["main"] = "waiting"
  /\ \E t \in {"first", "dec_in"} :
       /\ pc[t] = "finished"
       /\ outcome' = [outcome EXCEPT !.result.seen =
                        IF work[t].st = "ok" THEN @ \cup {<<t, work[t].arg, work[t].val>>} ELSE @]
       /\ work' = [work EXCEPT ![t] = IdleWork]
       /\ pc' = [pc EXCEPT !["main"] = "ready", ![t] = "idle"]
  /\ UNCHANGED <<chain, rpc_urls_arg, clientVars, loc, receipt, tx, swaps, resolved,
                 posts, calls>>

\* A new client on one or two endpoints
InitCache ==
  /\ chain = Scenario(Receipt("0x1", None, <<SwapA>>), Tx(SenderF))
  /\ rpc_urls_arg \in {<<"u1">>, <<"u1", "u2">>}
  /\ rpc_urls = rpc_urls_arg
  /\ request_id = 1
  /\ pool_tokens_cache = <<>>
  /\ decimals_cache = <<>>
  /\ pc = [t \in Tasks |-> IF t = "main" THEN "ready" ELSE "idle"]
  /\ loc = [t \in Tasks |-> IdleFrame]
  /\ work = [t \in Workers |-> IdleWork]
  /\ receipt = NullReceipt
  /\ tx = NullTx
  /\ swaps = <<>>
  /\ resolved = NoResolved
  /\ outcome = Driving(0, {}, 0, 0)
  /\ posts = NoPosts
  /\ calls = NoCalls

NextCache ==
  \/ TestLookupPair
  \/ TestLookupDecimals
  \/ TestLookupDone
  \/ GetPair("first")
  \/ AfterToken0("first")
  \/ AfterToken1("first")
  \/ GetDecimals("dec_in")
  \/ AfterDecimals("dec_in")
  \/ \E t \in {"first", "dec_in"} : CallStep(t)

SpecCache == InitCache /\ [][NextCache]_vars


\* ------------------------------------- format_amount on its own, and decode
\* Raw amounts: the small ones, and one or two units of a token of any decimals.
FormatValues == (0..MaxRaw) \cup {m * 10 ^ k : m \in {1, 2}, k \in 0..MaxDecimals}

FormatDecimals == 0..MaxDecimals

\* format_amount(value, decimals) is about to be called
InitFormat ==
  /\ chain = Scenario(NullReceipt, NullTx)
  /\ rpc_urls_arg = <<"u1">>
  /\ pc = [t \in Tasks |-> IF t = "main" THEN "format" ELSE "idle"]
  /\ rpc_urls = <<>>
  /\ request_id = 0
  /\ pool_tokens_cache = <<>>
  /\ decimals_cache = <<>>
  /\ loc = [t \in Tasks |-> IdleFrame]
  /\ work = [t \in Workers |-> IdleWork]
  /\ receipt = NullReceipt
  /\ tx = NullTx
  /\ swaps = <<>>
  /\ \E value \in FormatValues, decimals \in FormatDecimals :
       resolved = [NoResolved EXCEPT !.amount_in = value, !.decimals_in = decimals]
  /\ outcome = NoOutcome
  /\ posts = NoPosts
  /\ calls = NoCalls

\* format_amount(amount_in, decimals_in), line 192
TestFormat ==
  /\ pc["main"] = "format"
  /\ outcome' = Returned(format_amount(resolved.amount_in, resolved.decimals_in))
  /\ pc' = [pc EXCEPT !["main"] = "formatted"]
  /\ UNCHANGED <<chain, rpc_urls_arg, clientVars, loc, work, receipt, tx, swaps, resolved,
                 posts, calls>>

\* Either a decode, or format_amount on its own
SpecAmounts == (Init \/ InitFormat) /\ [][Next \/ TestFormat]_vars


\* ================================================================ claims
\* What the claims say, in their own terms.

\* topic0 is the Swap signature, in any letter case, with or without "0x".
SigMatches(topic) ==
  LET l == lower(topic)
  IN  l = SWAP_EVENT_SIG \/ l = <<"0", "x">> \o SWAP_EVENT_SIG

\* The log qualifies as a Swap event.
Qualifies(log) == Len(log.topics) >= 3 /\ SigMatches(log.topics[1])

QualIdx(logs) == {i \in 1..Len(logs) : Qualifies(logs[i])}

\* The k-th smallest element of a set of numbers.
Nth(S, k) == CHOOSE i \in S : Cardinality({j \in S : j <= i}) = k

\* The canonical form of an address: lower case behind "0x".
Canonical(a) ==
  LET l == lower(a)
  IN  IF Len(l) >= 2 /\ SubSeq(l, 1, 2) = <<"0", "x">> THEN l ELSE <<"0", "x">> \o l

\* The event a qualifying log stands for.
EventOf(log) ==
  SwapEvent(Canonical(log.address),
            Canonical(LastN(log.topics[2], AddrLen)),
            Canonical(LastN(log.topics[3], AddrLen)),
            DecodeInt(log.data[1]), DecodeInt(log.data[2]))

Opposite(e) ==
  (e.amount0 > 0 /\ e.amount1 < 0) \/ (e.amount1 > 0 /\ e.amount0 < 0)

TruePair(e) == PoolPair(Canonical(e.pool))

TokenInOf(e) == IF e.amount0 > 0 THEN TruePair(e)[1] ELSE TruePair(e)[2]
TokenOutOf(e) == IF e.amount0 > 0 THEN TruePair(e)[2] ELSE TruePair(e)[1]
AmountInOf(e) == IF e.amount0 > 0 THEN e.amount0 ELSE e.amount1
AmountOutOf(e) == IF e.amount0 > 0 THEN 0 - e.amount1 ELSE 0 - e.amount0

Supplies(from) == from # None /\ from # <<>>

ChainTxFrom == IF chain.tx.null THEN None ELSE chain.tx.from

NoRequestOf(method) == posts[method] = 0 /\ calls[method] = 0

\* C1: within one call the endpoints are contacted in list order, each at most
\* once; every kind of failure moves the call on to the next endpoint; a success
\* envelope ends the call with that endpoint's result, and no endpoint after it
\* is contacted.
C1_FailoverInListOrder ==
  \A t \in Tasks :
    LET f == loc[t]
        n == Len(f.tried)
    IN  /\ n <= Len(rpc_urls)
        /\ \A i \in 1..n : f.tried[i].ep = i
        /\ \A i \in 1..n :
             f.tried[i].kind = "ok" =>
               /\ i = n
               /\ pc[t] = "call_ret"
               /\ f.ret.st = "ok"
               /\ f.ret.val \in Answers(f)
        /\ (n > 0 /\ f.tried[n].kind \in FailKinds) =>
             /\ f.rpc_url = n + 1
             /\ pc[t] = "call_ret" => f.ret.st = "err"
        /\ (pc[t] = "call_ret" /\ f.ret.st = "ok") => (n > 0 /\ f.tried[n].kind = "ok")
        /\ pc[t] \in {"call_try", "call_incr", "call_post"} => f.rpc_url = n + 1

\* C1 witness: the second of three endpoints answered after the first failed,
\* and the call returned without contacting the third.
C1_Witness ==
  /\ pc["main"] = "call_ret"
  /\ loc["main"].ret.st = "ok"
  /\ Len(loc["main"].tried) = 2
  /\ Len(rpc_urls) = 3

\* C2: a call raises exactly when every endpoint of the list failed; it has
\* then attempted each endpoint once, in order, and the error it raises carries
\* the failure of the last endpoint.
C2_FailsIffAllEndpointsFailed ==
  /\ \A t \in Tasks :
       pc[t] = "call_ret" =>
         LET f == loc[t]
             n == Len(f.tried)
         IN  /\ f.ret.st = "err" <=>
                  (n = Len(rpc_urls) /\ \A i \in 1..n : f.tried[i].kind # "ok")
             /\ f.ret.st = "err" =>
                  /\ \A i \in 1..Len(rpc_urls) : f.tried[i].ep = i
                  /\ f.tried[n].kind \in FailKinds
                  /\ f.ret.last = [ep |-> Len(rpc_urls), kind |-> f.tried[n].kind]
  /\ (outcome.kind = "raised" /\ outcome.msg = AllFailed) =>
       (outcome.last.ep = Len(rpc_urls) /\ outcome.last.kind \in FailKinds)

\* C2 witness: three endpoints failed, the last with a body that has no result.
C2_Witness ==
  /\ pc["main"] = "call_ret"
  /\ loc["main"].ret.st = "err"
  /\ Len(rpc_urls) = 3
  /\ loc["main"].ret.last.kind = "no_result"

\* C3: for an event with amount0 > 0 > amount1 the resolver returns
\* (token0, token1, amount0, -amount1) of the event's pool, for one with
\* amount1 > 0 > amount0 it returns (token1, token0, amount1, -amount0); both
\* amounts returned are positive. (The resolver raises instead when the pair
\* cannot be fetched from any endpoint.)
C3_DirectionBySign ==
  \A t \in {"first", "last"} :
    (Done(t) /\ Opposite(work[t].arg)) =>
      LET e == work[t].arg
          pair == TruePair(e)
      IN  \/ /\ work[t].st = "ok"
             /\ work[t].val =
                  IF e.amount0 > 0
                  THEN <<pair[1], pair[2], e.amount0, 0 - e.amount1>>
                  ELSE <<pair[2], pair[1], e.amount1, 0 - e.amount0>>
             /\ work[t].val[3] > 0
             /\ work[t].val[4] > 0
          \/ /\ work[t].st = "err"
             /\ work[t].err = AllFailed

\* C3 witness: a mirror-case event resolved after fetching the pair.
C3_Witness ==
  /\ work["first"].st = "ok"
  /\ work["first"].arg.amount0 = -1
  /\ work["first"].arg.amount1 = 2
  /\ calls["eth_call"] = 2

\* C4: an event whose amounts are not of strictly opposite sign makes the
\* resolver raise; it never returns a direction for it.
C4_MalformedSignsRaise ==
  \A t \in {"first", "last"} :
    (Done(t) /\ ~Opposite(work[t].arg)) =>
      /\ work[t].st = "err"
      /\ work[t].err \in {"unexpected swap amounts", AllFailed}
      /\ work[t].err = AllFailed => work[t].last.kind \in FailKinds

\* C4 witness: an event with a zero on the negative side was rejected.
C4_Witness ==
  /\ work["first"].st = "err"
  /\ work["first"].err = "unexpected swap amounts"
  /\ work["first"].arg.amount0 = 2
  /\ work["first"].arg.amount1 = 0


\* C5: a Result takes tokenIn and amountIn from the first qualifying log of the
\* receipt, tokenOut, amountOut and recipient from the last one, each amount
\* scaled by its own token's decimals; what lies between them leaves no trace.
C5_FirstInLastOut ==
  outcome.kind = "returned" =>
    LET logs == chain.receipt.logs
        Q == QualIdx(logs)
        first == EventOf(logs[Nth(Q, 1)])
        last == EventOf(logs[Nth(Q, Cardinality(Q))])
        r == outcome.result
    IN  /\ Q # {}
        /\ r.tokenIn = TokenInOf(first)
        /\ r.amountIn = format_amount(AmountInOf(first), TokenDecimals(TokenInOf(first)))
        /\ r.tokenOut = TokenOutOf(last)
        /\ r.amountOut = format_amount(AmountOutOf(last), TokenDecimals(TokenOutOf(last)))
        /\ r.recipient = last.recipient

\* C5 witness: a Result for three swap events on two pools.
C5_Witness ==
  /\ outcome.kind = "returned"
  /\ Len(swaps) = 3
  /\ swaps[1].pool # swaps[3].pool
  /\ swaps[1].recipient # swaps[3].recipient

\* C6: when the parser returns, its events are the qualifying logs of the
\* receipt, one event per log, in receipt order; a log that does not qualify is
\* skipped and never makes the parser raise.
C6_ParseKeepsLogOrder ==
  pc["main"] = "done" =>
    LET logs == chain.receipt.logs
        Q == QualIdx(logs)
    IN  /\ outcome.kind = "returned" =>
             /\ Len(swaps) = Cardinality(Q)
             /\ \A k \in 1..Len(swaps) : swaps[k] = EventOf(logs[Nth(Q, k)])
        /\ outcome.kind = "raised" => \E i \in Q : Len(logs[i].data) < 5
        /\ (\A i \in Q : Len(logs[i].data) >= 5) => outcome.kind = "returned"

\* C6 witness: of three logs the middle one is skipped and the two equal Swap
\* logs around it both come back.
C6_Witness ==
  /\ pc["main"] = "done"
  /\ outcome.kind = "returned"
  /\ Len(chain.receipt.logs) = 3
  /\ ~Qualifies(chain.receipt.logs[2])
  /\ Len(chain.receipt.logs[2].topics) = 2
  /\ Len(swaps) = 2
  /\ swaps[1] = swaps[2]

\* C7: once a receipt whose status is not success has been fetched, decode has
\* raised transaction-failed, and neither eth_getTransactionByHash nor eth_call
\* has been or will be called.
C7_FailedStatusStopsAfterReceipt ==
  (~receipt.null /\ receipt.status # "0x1") =>
    /\ pc["main"] = "done"
    /\ outcome.kind = "raised"
    /\ outcome.msg = "transaction failed"
    /\ calls["eth_getTransactionReceipt"] = 1
    /\ NoRequestOf("eth_getTransactionByHash")
    /\ NoRequestOf("eth_call")

\* C7 witness: the second endpoint served a receipt with status 0x0.
C7_Witness ==
  /\ pc["main"] = "done"
  /\ ~receipt.null
  /\ receipt.status = "0x0"
  /\ posts["eth_getTransactionReceipt"] = 2

\* C8: a decode that fetched a successful receipt with no qualifying log ends
\* raising, with no Result and no eth_call; the error is no-swap-found unless
\* fetching the transaction, which comes before parsing, failed on every endpoint.
C8_NoSwapFound ==
  (pc["main"] = "done" /\ ~receipt.null /\ receipt.status = "0x1"
     /\ QualIdx(receipt.logs) = {}) =>
    /\ outcome.kind = "raised"
    /\ \/ outcome.msg = "no Uniswap V3 Swap event found"
       \/ outcome.msg = AllFailed /\ outcome.last.ep = Len(rpc_urls)
    /\ NoRequestOf("eth_call")

\* C8 witness: a receipt of two Transfer logs ended in no-swap-found.
C8_Witness ==
  /\ pc["main"] = "done"
  /\ Len(receipt.logs) = 2
  /\ receipt.status = "0x1"
  /\ outcome.msg = "no Uniswap V3 Swap event found"

\* C9: a Result's sender is the transaction's from when it has one, else the
\* receipt's, in canonical form; a null or empty transaction alone does not
\* fail the decode; sender-not-found is raised only when neither names a
\* sender, and is what a decode that resolved both decimals raises then.
C9_SenderFromTxThenReceipt ==
  pc["main"] = "done" =>
    LET neither == ~Supplies(ChainTxFrom) /\ ~Supplies(chain.receipt.from)
    IN  /\ outcome.kind = "returned" =>
             /\ ~neither
             /\ outcome.result.sender =
                  Canonical(IF Supplies(ChainTxFrom) THEN ChainTxFrom ELSE chain.receipt.from)
        /\ (outcome.kind = "raised" /\ outcome.msg = "sender not found") => neither
        /\ (neither /\ work["dec_in"].st = "ok" /\ work["dec_out"].st = "ok") =>
             (outcome.kind = "raised" /\ outcome.msg = "sender not found")

\* C9 witness: the transaction came back null and the sender was taken from
\* the receipt.
C9_Witness ==
  /\ pc["main"] = "done"
  /\ outcome.kind = "returned"
  /\ chain.tx.null
  /\ outcome.result.sender = <<"0", "x">> \o Sender8

\* C10: with no URL, or only empty URLs, the constructor raises, so decode
\* raises before any call of the client and any HTTP request; with a URL the
\* constructor does not raise.
C10_EmptyEndpointListRaises ==
  /\ (\A i \in 1..Len(rpc_urls_arg) : rpc_urls_arg[i] = "") =>
       /\ pc["main"] \in {"start", "done"}
       /\ \A m \in Methods : NoRequestOf(m)
       /\ pc["main"] = "done" =>
            (outcome.kind = "raised" /\ outcome.msg = "RPC_URL is empty")
  /\ outcome.msg = "RPC_URL is empty" =>
       \A i \in 1..Len(rpc_urls_arg) : rpc_urls_arg[i] = ""

\* C10 witness: decode on a list holding one empty URL has raised.
C10_Witness ==
  /\ pc["main"] = "done"
  /\ rpc_urls_arg = <<"">>
  /\ outcome.msg = "RPC_URL is empty"

\* What a lookup in progress or just finished is about, and the earlier lookups
\* of the same function that returned for the same address in any spelling.
LookupAddr(t) == IF t = "first" THEN work[t].arg.pool ELSE work[t].arg

PriorLookups(t) ==
  {s \in outcome.result.seen :
     s[1] = t /\ Canonical(IF t = "first" THEN s[2].pool ELSE s[2]) = Canonical(LookupAddr(t))}

CallsOfLookup == calls["eth_call"] - outcome.result.calls0

PostsOfLookup == posts["eth_call"] - outcome.result.posts0

\* C11: once a lookup of a pool's pair (of a token's decimals) has returned on a
\* client, every later lookup of that address, however spelled, returns the
\* same value without any call or request; a first lookup calls token0() then
\* token1() (decimals() once) at the canonical address, and when it returns it
\* has made exactly those calls and the cache holds the value under the
\* canonical address.
C11_ReadThroughCache ==
  \A t \in {"first", "dec_in"} :
    work[t].st # "none" =>
      LET key == Canonical(LookupAddr(t))
          returned == pc[t] = "finished" /\ work[t].st = "ok"
      IN  IF PriorLookups(t) # {}
          THEN /\ CallsOfLookup = 0
               /\ PostsOfLookup = 0
               /\ pc[t] \in {"resolve", "decimals", "finished"}
               /\ pc[t] = "finished" =>
                    (work[t].st = "ok" /\ \A s \in PriorLookups(t) : s[3] = work[t].val)
          ELSE /\ pc[t] \in {"call_try", "call_incr", "call_post", "call_ret"} =>
                    /\ loc[t].to = key
                    /\ loc[t].data = TOKEN0_SELECTOR => (t = "first" /\ CallsOfLookup = 1)
                    /\ loc[t].data = TOKEN1_SELECTOR => (t = "first" /\ CallsOfLookup = 2)
                    /\ loc[t].data = DECIMALS_SELECTOR => (t = "dec_in" /\ CallsOfLookup = 1)
               /\ (returned /\ t = "first") =>
                    /\ CallsOfLookup = 2
                    /\ key \in DOMAIN pool_tokens_cache
                    /\ pool_tokens_cache[key] = <<work[t].val[1], work[t].val[2]>>
                    /\ pool_tokens_cache[key] = PoolPair(key)
               /\ (returned /\ t = "dec_in") =>
                    /\ CallsOfLookup = 1
                    /\ key \in DOMAIN decimals_cache
                    /\ decimals_cache[key] = work[t].val
                    /\ decimals_cache[key] = TokenDecimals(key)

\* C11 witness: after a lookup of a pool spelled in lower case, a lookup of the
\* same pool in upper case returned from the cache.
C11_Witness ==
  /\ pc["first"] = "finished"
  /\ work["first"].st = "ok"
  /\ work["first"].arg.pool = <<"0", "X">> \o Rep("D", AddrLen)
  /\ \E s \in outcome.result.seen : s[1] = "first" /\ s[2].pool = PoolD
  /\ calls["eth_call"] = 2

\* The resolution tasks of decode that were given the pool with this cache key.
TasksOn(key) == {t \in {"first", "last"} : work[t].st # "none" /\ Canonical(work[t].arg.pool) = key}

\* The task fetched token0 and token1: it is over and did not end in an RPC error.
Fetched(t) == Done(t) /\ work[t].err # AllFailed

\* C12: with the first and the last event resolved by two concurrent tasks, at
\* every state each entry of the pair cache is a whole pair, the true
\* (token0, token1) of the pool it is keyed by, with one key per pool; an entry
\* exists only if a task fetched both tokens of that pool, so a task whose
\* token0 or token1 fetch failed wrote none; and when both tasks are over the
\* cache holds the entry of every pool a task fetched.
C12_PairCacheConsistent ==
  /\ \A k \in DOMAIN pool_tokens_cache :
       /\ Len(pool_tokens_cache[k]) = 2
       /\ pool_tokens_cache[k] = PoolPair(k)
       /\ k = Canonical(k)
       /\ \E t \in TasksOn(k) : Fetched(t)
  /\ \A t \in {"first", "last"} :
       Fetched(t) => Canonical(work[t].arg.pool) \in DOMAIN pool_tokens_cache
  /\ Cardinality(DOMAIN pool_tokens_cache) <= 2

\* C12 witness: both tasks missed on the same pool; one has stored the pair and
\* the other is back from token1(), about to store it again.
C12_Witness ==
  /\ work["first"].st = "ok"
  /\ pc["last"] = "call_ret"
  /\ loc["last"].data = TOKEN1_SELECTOR
  /\ loc["last"].ret.st = "ok"
  /\ work["last"].key = work["first"].arg.pool
  /\ work["last"].key \in DOMAIN pool_tokens_cache

\* The qualifying logs of the receipt on chain, as events, in log order.
ChainEvents ==
  LET logs == chain.receipt.logs
      Q == QualIdx(logs)
  IN  [k \in 1..Cardinality(Q) |-> EventOf(logs[Nth(Q, k)])]

\* C13 as stated: a Result is never returned for a receipt that holds a
\* malformed swap event, wherever the event sits in log order.
C13_MalformedAnywhereStops ==
  outcome.kind = "returned" =>
    \A k \in 1..Len(ChainEvents) : Opposite(ChainEvents[k])

\* C13 amended: a decode of a receipt whose first or last swap event is
\* malformed ends raising, with no Result; every Result comes from a receipt
\* whose first and last swap events both have amounts of opposite sign.
C13_MalformedEndsStop ==
  LET n == Len(ChainEvents)
  IN  /\ (pc["main"] = "done" /\ n > 0
             /\ (~Opposite(ChainEvents[1]) \/ ~Opposite(ChainEvents[n]))) =>
            (outcome.kind = "raised" /\ outcome.result = <<>>)
      /\ outcome.kind = "returned" =>
            (n > 0 /\ Opposite(ChainEvents[1]) /\ Opposite(ChainEvents[n]))

\* C13 witness: of three swap events the last is malformed, and decode raised
\* on it after resolving the first.
C13_Witness ==
  /\ pc["main"] = "done"
  /\ outcome.kind = "raised"
  /\ outcome.msg = "unexpected swap amounts"
  /\ Len(swaps) = 3
  /\ Opposite(swaps[1])
  /\ ~Opposite(swaps[3])
  /\ work["first"].st = "ok"

\* The decimal string denotes value / 10^decimals exactly.
Denotes(str, value, decimals) ==
  /\ str.exp <= 0
  /\ str.exp + decimals >= 0
  /\ str.coef * 10 ^ (str.exp + decimals) = value

\* The text of a whole number: the digits alone.
Whole(n) == DecStr(n, 0, FALSE)

\* C14: a Result's amountIn denotes exactly the first event's positive raw
\* amount over 10^decimals of tokenIn, its amountOut exactly the negated negative
\* amount of the last event over 10^decimals of tokenOut; format_amount gives
\* the integer verbatim for 0 decimals and "0" for a raw amount of 0; one log
\* with one unit of token0 in and two units of token1 out gives amountIn "1"
\* and amountOut "2".
C14_AmountsExact ==
  /\ (pc["main"] = "done" /\ outcome.kind = "returned") =>
       LET first == ChainEvents[1]
           last == ChainEvents[Len(ChainEvents)]
           r == outcome.result
       IN  /\ Denotes(r.amountIn, AmountInOf(first), TokenDecimals(TokenInOf(first)))
           /\ Denotes(r.amountOut, AmountOutOf(last), TokenDecimals(TokenOutOf(last)))
           /\ TokenDecimals(TokenInOf(first)) = 0 => r.amountIn = Whole(AmountInOf(first))
           /\ TokenDecimals(TokenOutOf(last)) = 0 => r.amountOut = Whole(AmountOutOf(last))
           /\ chain.receipt.logs = <<SwapX>> =>
                (r.amountIn = Whole(1) /\ r.amountOut = Whole(2))
  /\ pc["main"] = "formatted" =>
       LET value == resolved.amount_in
           decimals == resolved.decimals_in
           str == outcome.result
       IN  /\ Denotes(str, value, decimals)
           /\ decimals = 0 => str = Whole(value)
           /\ value = 0 => str = Whole(0)
           /\ (value = 1000000 /\ decimals = 6) => str = Whole(1)
           /\ (value = 2 * 10 ^ MaxDecimals /\ decimals = MaxDecimals) => str = Whole(2)

\* C14 witness: the Result of the one-log transaction, the two amounts scaled by
\* different decimals.
C14_Witness ==
  /\ pc["main"] = "done"
  /\ outcome.kind = "returned"
  /\ chain.receipt.logs = <<SwapX>>
  /\ resolved.amount_in = 10
  /\ resolved.decimals_in = 1
  /\ resolved.amount_out = 200
  /\ resolved.decimals_out = 2

\* The step is task t storing a pool's pair (line 82).
StoresPair(t) == Back(t, "token1") /\ loc[t].ret.st = "ok" /\ pc'[t] = "finished"

\* C15: the pair cache entry of a pool is written at most once: a task that
\* stores the pair of a pool finds no entry of that pool stored before.
C15_PairCachePopulatedOnce ==
  [][\A t \in {"first", "last"} :
       StoresPair(t) => work[t].key \notin DOMAIN pool_tokens_cache]_vars

\* The step is task t sending the request it has built (line 48).
Sends(t) == pc[t] = "call_post" /\ pc'[t] # "call_post"

\* C16: every request the client sends carries an id greater than the id of
\* every request it sent before.
C16_RequestIdsIncrease ==
  [][\A t \in Tasks : Sends(t) => loc[t].id > posts["max_id"]]_vars

\* C17: whenever decode has returned or raised, every sub-task it spawned is
\* over, also the sibling of a sub-task that failed, and from then on no call of
\* the client begins and no request is sent.
C17_JoinedBeforeReturn ==
  /\ [](outcome.kind # "none" =>
          \A w \in Workers : work[w].st # "running" /\ pc[w] \in {"idle", "finished"})
  /\ [][outcome.kind # "none" => (posts' = posts /\ calls' = calls)]_vars

\* C17 witness: the first-event resolution failed on the RPC while its sibling
\* went on to fetch its pair, and decode raised the failure only after.
C17_Witness ==
  /\ outcome.kind = "raised"
  /\ outcome.msg = AllFailed
  /\ work["first"].st = "err"
  /\ work["last"].st = "ok"
  /\ work["last"].arg.pool # work["first"].arg.pool
  /\ work["dec_in"].st = "none"

\* The main thread has the receipt and the transaction: it is past both fetches.
PastFetches ==
  /\ pc["main"] \in {"wait_first", "wait_last", "wait_dec_in", "wait_dec_out", "exit", "done"}
  /\ calls["eth_getTransactionReceipt"] = 1
  /\ calls["eth_getTransactionByHash"] = 1
  /\ posts["eth_getTransactionReceipt"] >= 1
  /\ posts["eth_getTransactionByHash"] >= 1
  /\ ~receipt.null
  /\ ~tx.null

\* C18: no eth_call begins before the receipt and the transaction have been
\* fetched; a decimals lookup is dispatched only when both direction
\* resolutions have returned, so never when one of them failed; a Result is
\* returned only when both decimals lookups have returned.
C18_StagesJoin ==
  /\ (calls["eth_call"] > 0 \/ \E w \in Workers : work[w].st # "none") => PastFetches
  /\ \A d \in {"dec_in", "dec_out"} :
       work[d].st # "none" => (work["first"].st = "ok" /\ work["last"].st = "ok")
  /\ (work["first"].st = "err" \/ work["last"].st = "err") =>
       \A d \in {"dec_in", "dec_out"} : work[d].st = "none" /\ pc[d] = "idle"
  /\ outcome.kind = "returned" =>
       (work["dec_in"].st = "ok" /\ work["dec_out"].st = "ok")
  /\ pc["main"] \in {"wait_dec_in", "wait_dec_out"} =>
       \A d \in {"dec_in", "dec_out"} : work[d].st # "none"

\* C18 witness: the last-event resolution failed after the first had returned,
\* and decode raised without any decimals lookup.
C18_Witness ==
  /\ outcome.kind = "raised"
  /\ work["first"].st = "ok"
  /\ work["last"].st = "err"
  /\ work["dec_in"].st = "none"
  /\ work["dec_out"].st = "none"
  /\ calls["eth_call"] = 4

\* The call of task t is back with a null result.
BackWithNull(t) ==
  /\ pc[t] = "call_ret"
  /\ loc[t].ret.st = "ok"
  /\ loc[t].method # "eth_call"
  /\ loc[t].ret.val.null

\* C19: a success envelope with a null result ends the call as a success: only
\* the four failures of a request make a call go on to a later endpoint, a call
\* back with null has contacted no endpoint after the one that answered, and
\* when the receipt comes back null decode raises receipt-not-found at once,
\* with no further request, whatever the later endpoints hold.
C19_NullResultIsSuccess ==
  /\ [](/\ \A t \in Tasks : \A i \in 1..Len(loc[t].tried) :
             loc[t].tried[i].kind \in FailKinds \cup {"ok", "failed"}
        /\ \A t \in Tasks :
             BackWithNull(t) =>
               /\ loc[t].tried[Len(loc[t].tried)].kind = "ok"
               /\ loc[t].rpc_url = Len(loc[t].tried)
               /\ posts[loc[t].method] = Len(loc[t].tried)
        /\ outcome.msg = "receipt not found" =>
             /\ pc["main"] = "done"
             /\ outcome.kind = "raised"
             /\ posts["eth_getTransactionReceipt"] \in 1..Len(rpc_urls)
             /\ NoRequestOf("eth_getTransactionByHash")
             /\ NoRequestOf("eth_call"))
  /\ [][(BackWithNull("main") /\ loc["main"].method = "eth_getTransactionReceipt") =>
           /\ outcome'.kind = "raised"
           /\ outcome'.msg = "receipt not found"
           /\ posts' = posts
           /\ calls' = calls]_vars

\* C19 witness: the first of two endpoints answered null for a receipt that is
\* on chain, and decode raised receipt-not-found after that one request.
C19_Witness ==
  /\ outcome.msg = "receipt not found"
  /\ Len(rpc_urls) = 2
  /\ ~chain.receipt.null
  /\ posts["eth_getTransactionReceipt"] = 1

\* All calls begun and all requests sent by the decode so far.
TotalCalls ==
  calls["eth_getTransactionReceipt"] + calls["eth_getTransactionByHash"] + calls["eth_call"]

TotalPosts ==
  posts["eth_getTransactionReceipt"] + posts["eth_getTransactionByHash"] + posts["eth_call"]

\* C20: a decode begins at most one eth_getTransactionReceipt, one
\* eth_getTransactionByHash, four eth_calls of token0()/token1() and two of
\* decimals(), eight calls in all, however many swap events the receipt holds,
\* and sends at most one request per call and endpoint, 8 x N in all.
C20_AtMostEightCalls ==
  /\ calls["eth_getTransactionReceipt"] <= 1
  /\ calls["eth_getTransactionByHash"] <= 1
  /\ calls[TOKEN0_SELECTOR] + calls[TOKEN1_SELECTOR] <= 4
  /\ calls[DECIMALS_SELECTOR] <= 2
  /\ calls["eth_call"] = calls[TOKEN0_SELECTOR] + calls[TOKEN1_SELECTOR] + calls[DECIMALS_SELECTOR]
  /\ TotalCalls <= 8
  /\ \A m \in Methods : posts[m] <= calls[m] * Len(rpc_urls)
  /\ TotalPosts <= 8 * Len(rpc_urls)

\* C20 witness: a decode of three swap events on two pools returned after all
\* eight calls.
C20_Witness ==
  /\ outcome.kind = "returned"
  /\ Len(swaps) = 3
  /\ TotalCalls = 8
  /\ calls[TOKEN0_SELECTOR] = 2
  /\ calls[DECIMALS_SELECTOR] = 2

====
